---- MODULE Spec2Model ----
(***************************************************************************)
(* Model of src/streamlit_approval.py: the Streamlit approval page.        *)
(* One run of main() is one action.  The inputs of a run are the token of  *)
(* the page URL, the clock, whether the confirm button was activated, and  *)
(* what the backend answers to each outbound request.                      *)
(***************************************************************************)
EXTENDS Integers, Sequences, FiniteSets, TLC

\* ------------------------------------------------------------------ bounds
\* Largest clock value (and largest `exp`) the model explores.
MaxTime == 2
\* Largest number of confirm-button activations in one behaviour.
MaxClicks == 2

\* ------------------------------------------------------ Python values
\* A decoded JSON scalar as Python sees it: t is the Python type.
Val(t, n, s) == [t |-> t, n |-> n, s |-> s]
IntV(n) == Val("int", n, "")
StrV(s) == Val("str", 0, s)
NullV == Val("NoneType", 0, "")

\* Python truthiness (bool(v)): 0, "" and None are false.
Truthy(v) ==
    CASE v.t = "int" -> v.n # 0
      [] v.t = "str" -> v.s # ""
      [] OTHER -> FALSE

\* dict.get(key, default)
DictGet(d, k, default) == IF k \in DOMAIN d THEN d[k] ELSE default

\* ------------------------------------------------------------- tokens
ClaimNames == {"exp", "stage", "action", "job_id"}

\* The values each claim takes in the explored tokens: numbers, strings and
\* null, since the payload of an unverified token is arbitrary JSON.
ClaimValues(k) ==
    CASE k = "exp" -> {IntV(n) : n \in 0..MaxTime} \cup {StrV("tomorrow"), NullV}
      [] k = "stage" -> {StrV("final review"), IntV(5)}
      [] k = "action" -> {StrV("approve"), NullV}
      [] k = "job_id" -> {StrV("job-1")}

AllClaimValues == UNION {ClaimValues(k) : k \in ClaimNames}

\* Every mapping of the names in D to values of theirs.
ClaimsOver(D) ==
    { c \in [D -> AllClaimValues] : \A k \in D : c[k] \in ClaimValues(k) }

\* Claims mappings that name a backend of their own, a claim main() and
\* process_approval never read.
BackendClaimSets ==
    { [backend_url |-> StrV("https://other.example")],
      [backend_url |-> StrV("https://other.example/"), stage |-> StrV("final review"),
       action |-> StrV("approve"), job_id |-> StrV("job-1")] }

\* The explored claims mappings: every mapping without `exp` (the empty one
\* included), every `exp` alone, every `exp` beside well-formed details, and
\* the mappings with a `backend_url` claim.
ClaimSets ==
    UNION { ClaimsOver(D) : D \in SUBSET (ClaimNames \ {"exp"}) }
    \cup ClaimsOver({"exp"})
    \cup { c \in ClaimsOver(ClaimNames) :
             c["stage"].t = "str" /\ c["action"].t = "str" }
    \cup BackendClaimSets

NoClaims == [k \in {} |-> NullV]

\* The `token` query parameter.  kind:
\*   "absent"      no token parameter          (token is None)
\*   "empty"       ?token=                     (token is "")
\*   "garbage"     a string that is not three dot-separated segments
\*   "badpayload"  three segments, payload segment not JSON
\*   "listpayload" three segments, payload a JSON array
\*   "jwt"         three segments, payload a JSON object (the claims)
Token(kind, claims) == [kind |-> kind, claims |-> claims]

Tokens ==
    { Token(k, NoClaims) : k \in {"absent", "empty", "garbage", "badpayload", "listpayload"} }
    \cup { Token("jwt", c) : c \in ClaimSets }

\* `not token` in main(): None and "" are false.
TokenFalsy(token) == token.kind \in {"absent", "empty"}

\* decode_token without its try/except: the DecodeError reaches the caller.
decode_token_unguarded(token) ==
    IF token.kind = "jwt"
    THEN [raised |-> "none", ok |-> TRUE, claims |-> token.claims]
    ELSE [raised |-> "DecodeError", ok |-> FALSE, claims |-> NoClaims]

\* decode_token: jwt.decode(token, options={"verify_signature": False}) raises
\* DecodeError unless the token has three segments and its payload is a JSON
\* object; with verify_signature off no claim (exp included) is validated.
\* Every exception is caught and None returned (ok = FALSE), so nothing is
\* raised to the caller (raised = "none").
decode_token(token) ==
    IF token.kind = "jwt"
    THEN [raised |-> "none", ok |-> TRUE, claims |-> token.claims]
    ELSE [raised |-> "none", ok |-> FALSE, claims |-> NoClaims]

\* `if token_data:` / `if not token_data:`: None and the empty dict are false.
TokenDataTruthy(d) == d.ok /\ DOMAIN d.claims # {}

\* ------------------------------------------------------- HTTP responses
\* A parsed JSON body: an object (fields), an array (items) or a number;
\* t = "invalid" is a body response.json() cannot parse.
JObj(fields) == [t |-> "dict", fields |-> fields, items |-> <<>>]
JList(items) == [t |-> "list", fields |-> NoClaims, items |-> items]
JNum == [t |-> "int", fields |-> NoClaims, items |-> <<>>]
NotJson == [t |-> "invalid", fields |-> NoClaims, items |-> <<>>]

\* A response body: response.text and what response.json() makes of it.
Body(text, json) == [text |-> text, json |-> json]

Bodies ==
    { Body("{}", JObj(NoClaims)),
      Body("{\"message\": \"ok\"}", JObj([message |-> "ok"])),
      Body("{\"error\": \"expired\"}", JObj([error |-> "expired"])),
      Body("{\"message\": \"no\", \"error\": \"denied\"}",
           JObj([message |-> "no", error |-> "denied"])),
      Body("[]", JList(<<>>)),
      Body("[\"error\"]", JList(<<"error">>)),
      Body("7", JNum),
      Body("<html>Bad Gateway</html>", NotJson) }

StatusCodes == {200, 403}

\* What requests.get does: returns a response, or raises.  exc = "none" is a
\* response; the others are the exception classes of requests.exceptions.
Response(exc, status, body) == [exc |-> exc, status |-> status, body |-> body]

Raised == {"ConnectionError", "ConnectTimeout", "ReadTimeout", "TooManyRedirects"}

Responses ==
    { Response("none", st, b) : st \in StatusCodes, b \in Bodies }
    \cup { Response(e, 0, Body("", NotJson)) : e \in Raised }

\* The responses explored for the /test endpoint (its body is only echoed).
TestResponses ==
    { Response("none", 200, Body("", NotJson)),
      Response("none", 500, Body("", NotJson)),
      Response("ConnectionError", 0, Body("", NotJson)) }

\* isinstance(e, requests.exceptions.ConnectionError): ConnectTimeout derives
\* from both ConnectionError and Timeout.
IsConnectionError(exc) == exc \in {"ConnectionError", "ConnectTimeout"}
\* isinstance(e, requests.exceptions.Timeout)
IsTimeout(exc) == exc \in {"ConnectTimeout", "ReadTimeout"}

\* str(e) of a raised exception: the underlying cause.
ExcStr(exc) ==
    CASE exc = "ConnectionError" -> "Connection refused"
      [] exc = "ConnectTimeout" -> "Connect timed out"
      [] exc = "ReadTimeout" -> "Read timed out"
      [] OTHER -> "Exceeded 30 redirects"

\* `key in v` on a parsed body: "yes", "no", or "TypeError" (not a container).
PyIn(key, v) ==
    CASE v.t = "dict" -> IF key \in DOMAIN v.fields THEN "yes" ELSE "no"
      [] v.t = "list" -> IF \E i \in 1..Len(v.items) : v.items[i] = key THEN "yes" ELSE "no"
      [] OTHER -> "TypeError"

\* ----------------------------------------------------------------- URLs
\* A URL is the sequence of its pieces, every "/" a piece of its own, so that
\* rstrip('/') and the f-string concatenation are operations on it.
BackendUrl == <<"https:", "/", "/", "c15ccbaa9f46.ngrok-free.app">>

\* str.rstrip('/')
RECURSIVE RStripSlash(_)
RStripSlash(u) ==
    IF Len(u) > 0 /\ u[Len(u)] = "/" THEN RStripSlash(SubSeq(u, 1, Len(u) - 1)) ELSE u

ApprovalPath == <<"/", "api", "/", "v1", "/", "approval", "/", "action">>
TestPath == <<"/", "api", "/", "v1", "/", "approval", "/", "test">>

\* approval_endpoint: backend_url.rstrip('/') followed by the endpoint's path.
ApprovalEndpoint == RStripSlash(BackendUrl) \o ApprovalPath
\* test_url: backend_url, as it is, followed by the test path.
TestUrl == BackendUrl \o TestPath

\* An outbound GET: its URL and its `token` query parameter (<<>> when none).
Request(url, params) == [url |-> url, params |-> params]

\* ------------------------------------------------ test_backend_connection
\* The result of one call: (ok, message) and the request it sent.
test_backend_connection(resp) ==
    LET sent == <<Request(TestUrl, <<>>)>>
    IN  IF resp.exc = "none"
        THEN IF resp.status = 200
             THEN [ok |-> TRUE, message |-> "Backend is reachable", sent |-> sent]
             ELSE [ok |-> FALSE,
                   message |-> "Backend returned status " \o ToString(resp.status)
                               \o ": " \o resp.body.text,
                   sent |-> sent]
        ELSE IF IsConnectionError(resp.exc)
        THEN [ok |-> FALSE, message |-> "Cannot connect to backend - connection refused",
              sent |-> sent]
        ELSE IF IsTimeout(resp.exc)
        THEN [ok |-> FALSE, message |-> "Backend connection timeout", sent |-> sent]
        ELSE [ok |-> FALSE, message |-> "Backend test failed: " \o ExcStr(resp.exc),
              sent |-> sent]

\* ------------------------------------------------------- process_approval
GenericSuccess == "Approval processed successfully"
TimeoutMessage == "Request timed out. Please try again."

\* An outcome of process_approval's try body: a returned (success, message),
\* or an exception of class `raised` with text `cause` on its way out.
Returned(success, message) ==
    [raised |-> "none", cause |-> "", success |-> success, message |-> message]
Raise(class, cause) ==
    [raised |-> class, cause |-> cause, success |-> FALSE, message |-> ""]

\* The status 200 branch.  response.json() of an unparsable body raises
\* json.JSONDecodeError (requests over the standard json module), caught here; .get on a body that is not a dict raises
\* AttributeError, which this branch does not catch.
InterpretOk(resp) ==
    LET j == resp.body.json
    IN  IF j.t = "invalid" THEN Returned(TRUE, GenericSuccess)
        ELSE IF j.t = "dict" THEN Returned(TRUE, DictGet(j.fields, "message", GenericSuccess))
        ELSE Raise("AttributeError", "'" \o j.t \o "' object has no attribute 'get'")

\* The error branch with the message of the earlier variant of the file, which
\* left the response text out.
InterpretErrorBare(resp) ==
    LET j == resp.body.json
        has == IF j.t = "invalid" THEN "JSONDecodeError" ELSE PyIn("error", j)
    IN  IF has = "no" THEN Returned(FALSE, "Failed to process approval")
        ELSE IF has = "yes" /\ j.t = "dict" THEN Returned(FALSE, j.fields["error"])
        ELSE Returned(FALSE, "Server error: " \o ToString(resp.status))

\* The branch of every other status.  The bare except catches the parse error
\* and the TypeError of `in` or of [...] on a body that is not a dict.
InterpretError(resp) ==
    LET j == resp.body.json
        server_error == "Server error: " \o ToString(resp.status) \o " - " \o resp.body.text
        has == IF j.t = "invalid" THEN "JSONDecodeError" ELSE PyIn("error", j)
    IN  IF has = "no" THEN Returned(FALSE, "Failed to process approval")
        ELSE IF has = "yes" /\ j.t = "dict" THEN Returned(FALSE, j.fields["error"])
        ELSE Returned(FALSE, server_error)

\* The except clauses, tried in the order they are written.
HandleException(class, cause) ==
    IF IsConnectionError(class)
    THEN Returned(FALSE, "Cannot connect to the backend server: " \o cause)
    ELSE IF IsTimeout(class)
    THEN Returned(FALSE, TimeoutMessage)
    ELSE Returned(FALSE, "An error occurred: " \o cause)

\* The variant that takes the backend from the token's `backend_url` claim,
\* falling back to the fixed one.
ApprovalRequestsFromToken(token) ==
    LET claims == decode_token(token).claims
        backend_url == IF "backend_url" \in DOMAIN claims
                       THEN <<claims["backend_url"].s>>
                       ELSE BackendUrl
    IN  IF TokenDataTruthy(decode_token(token))
        THEN <<Request(RStripSlash(backend_url) \o ApprovalPath, <<token>>)>>
        ELSE <<>>

\* The requests process_approval sends for one call: one GET, when the token
\* decodes to a non-empty mapping, and none otherwise.
ApprovalRequests(token) ==
    IF TokenDataTruthy(decode_token(token))
    THEN <<Request(ApprovalEndpoint, <<token>>)>>
    ELSE <<>>

\* process_approval with one automatic retry after a failed call.
process_approval_retry(token, resp) ==
    LET sent == ApprovalRequests(token)
        body == IF sent = <<>> THEN Returned(FALSE, "Invalid token format")
                ELSE IF resp.exc # "none" THEN Raise(resp.exc, ExcStr(resp.exc))
                ELSE IF resp.status = 200 THEN InterpretOk(resp)
                ELSE InterpretError(resp)
        out == IF body.raised = "none" THEN body ELSE HandleException(body.raised, body.cause)
    IN  [raised |-> out.raised, success |-> out.success, message |-> out.message,
         sent |-> IF resp.exc # "none" THEN sent \o sent ELSE sent]

\* process_approval(token), the backend answering `resp` to its request.
process_approval(token, resp) ==
    LET sent == ApprovalRequests(token)
        body == IF sent = <<>> THEN Returned(FALSE, "Invalid token format")
                ELSE IF resp.exc # "none" THEN Raise(resp.exc, ExcStr(resp.exc))
                ELSE IF resp.status = 200 THEN InterpretOk(resp)
                ELSE InterpretError(resp)
        out == IF body.raised = "none" THEN body ELSE HandleException(body.raised, body.cause)
    IN  [raised |-> out.raised, success |-> out.success, message |-> out.message,
         sent |-> sent]

\* ------------------------------------------------------------------ main
\* datetime.utcnow().timestamp(): utcnow() is the naive UTC wall clock, and
\* timestamp() reads a naive datetime as local time, so the result is the epoch
\* time `now` less the host's UTC offset `tz` (equal to `now` on a UTC host).
UtcnowTimestamp(now, tz) == now - tz

\* The expiry gate: `exp_timestamp and utcnow().timestamp() > exp_timestamp`.
\* A truthy exp that is not a number makes the comparison raise TypeError.
ExpiryGate(claims, ts) ==
    LET exp_timestamp == DictGet(claims, "exp", IntV(0))
    IN  IF ~Truthy(exp_timestamp) THEN "open"
        ELSE IF exp_timestamp.t # "int" THEN "TypeError"
        ELSE IF ts > exp_timestamp.n THEN "expired"
        ELSE "open"

\* str.title() of the strings the tokens and defaults carry.
TitleCase(s) ==
    CASE s = "approve" -> "Approve"
      [] s = "final review" -> "Final Review"
      [] OTHER -> s

\* token_data.get(key, 'Unknown').title(): AttributeError unless a str.
Titled(claims, key) ==
    LET v == DictGet(claims, key, StrV("Unknown"))
    IN  IF v.t = "str" THEN [raised |-> "none", s |-> TitleCase(v.s)]
        ELSE [raised |-> "AttributeError", s |-> ""]

\* What one run of main() leaves: the state rendered, whether the confirm
\* button was rendered and whether st.button returned True, the outcome shown,
\* and the requests sent, in order.
Page(state, button, pressed, success, message, sent) ==
    [state |-> state, button |-> button, pressed |-> pressed,
     success |-> success, message |-> message, sent |-> sent]

\* The valid branch submitting on render instead of on the button.
ValidBranchAutoSubmit(token, claims, clicked, sent1, t2, ar) ==
    LET stage == Titled(claims, "stage")
        action == Titled(claims, "action")
        sent2 == sent1 \o test_backend_connection(t2).sent
        result == process_approval(token, ar)
    IN  IF stage.raised # "none" \/ action.raised # "none"
        THEN Page("Crashed", FALSE, FALSE, FALSE, "AttributeError", sent1)
        ELSE IF result.success
        THEN Page("Success", TRUE, clicked, TRUE, result.message, sent2 \o result.sent)
        ELSE Page("Failure", TRUE, clicked, FALSE, result.message, sent2 \o result.sent)

\* The block under `if token_data:` once the expiry gate is passed: details,
\* second backend test, button, and the approval when the button was pressed.
ValidBranch(token, claims, clicked, sent1, t2, ar) ==
    LET stage == Titled(claims, "stage")
        action == Titled(claims, "action")
        sent2 == sent1 \o test_backend_connection(t2).sent
        result == process_approval(token, ar)
    IN  IF stage.raised # "none" \/ action.raised # "none"
        THEN Page("Crashed", FALSE, FALSE, FALSE, "AttributeError", sent1)
        ELSE IF ~clicked
        THEN Page("Valid", TRUE, FALSE, FALSE, "", sent2)
        ELSE IF result.success
        THEN Page("Success", TRUE, TRUE, TRUE, result.message, sent2 \o result.sent)
        ELSE Page("Failure", TRUE, TRUE, FALSE, result.message, sent2 \o result.sent)

\* main(): `clicked` is whether this run was started by the confirm button;
\* t1, t2 and ar are the backend's answers to the two connection tests and to
\* the approval request, for the calls the run makes.
main(token, now, tz, clicked, t1, t2, ar) ==
    LET sent1 == test_backend_connection(t1).sent
        token_data == decode_token(token)
        gate == ExpiryGate(token_data.claims, UtcnowTimestamp(now, tz))
    IN  IF TokenFalsy(token)
        THEN Page("NoLink", FALSE, FALSE, FALSE, "", sent1)
        ELSE IF token_data.raised # "none"
        THEN Page("Crashed", FALSE, FALSE, FALSE, token_data.raised, sent1)
        ELSE IF ~TokenDataTruthy(token_data)
        THEN Page("Invalid", FALSE, FALSE, FALSE, "", sent1)
        ELSE IF gate = "TypeError"
        THEN Page("Crashed", FALSE, FALSE, FALSE, "TypeError", sent1)
        ELSE IF gate = "expired"
        THEN Page("Expired", FALSE, FALSE, FALSE, "", sent1)
        ELSE ValidBranch(token, token_data.claims, clicked, sent1, t2, ar)

\* ----------------------------------------------------------------- state
VARIABLES
    token,         \* the token of the page URL
    now,           \* the clock: epoch time, in the model's time unit
    tzOffset,      \* the host's UTC offset, in the same unit
    page,          \* what the last run of main() rendered and sent
    ranAt,         \* the clock when that run happened
    answer,        \* the backend's answer to that run's approval request
    clicks,        \* runs in which st.button returned True, so far
    approvalGets   \* GETs sent to the approval action endpoint, so far

vars == <<token, now, tzOffset, page, ranAt, answer, clicks, approvalGets>>

TzOffsets == {-1, 0, 1}

NotLoaded == Page("NotLoaded", FALSE, FALSE, FALSE, "", <<>>)

\* The value of `answer` after a run that sent no approval request.
NoAnswer == Response("unsent", 0, Body("", NotJson))

\* The requests of a run that went to the approval action endpoint.
ApprovalSent(p) ==
    Len(SelectSeq(p.sent, LAMBDA r : r.url = ApprovalEndpoint))

Init ==
    /\ token \in Tokens
    /\ now \in 1..MaxTime
    /\ tzOffset \in TzOffsets
    /\ page = NotLoaded
    /\ ranAt = now
    /\ answer = NoAnswer
    /\ clicks = 0
    /\ approvalGets = 0

\* One script run, the backend answering t1 and t2 to the connection tests and
\* an answer of `answers` to the approval request; the session's counters
\* follow what the run did.
Run(clicked, answers) ==
    \E t1 \in TestResponses, t2 \in TestResponses, ar \in answers :
        /\ page' = main(token, now, tzOffset, clicked, t1, t2, ar)
        /\ ranAt' = now
        /\ answer' = IF ApprovalSent(page') > 0 THEN ar ELSE NoAnswer
        /\ clicks' = clicks + (IF page'.pressed THEN 1 ELSE 0)
        /\ approvalGets' = approvalGets + ApprovalSent(page')
        /\ UNCHANGED <<token, now, tzOffset>>

\* The browser loads (or reloads) the page URL.  No button is pressed in such
\* a run, so main() does not reach process_approval and one answer stands for
\* all of them.
PageLoad == Run(FALSE, {Response("none", 200, Body("", NotJson))})

\* The user activates the confirm button the last run rendered: Streamlit
\* reruns the script, and st.button returns True if the rerun reaches it.
Confirm ==
    /\ page.button
    /\ clicks < MaxClicks
    /\ Run(TRUE, Responses)

\* Time passes between runs.
Tick ==
    /\ now < MaxTime
    /\ now' = now + 1
    /\ UNCHANGED <<token, tzOffset, page, ranAt, answer, clicks, approvalGets>>

Next == PageLoad \/ Confirm \/ Tick

Spec == Init /\ [][Next]_vars

\* ---------------------------------------------------------------- claims
Loaded == page.state # "NotLoaded"
Decoded == decode_token(token)
\* The last run got an HTTP response (not an exception) to its approval request.
GotResponse == answer.exc = "none"

\* C1: a page load with no `token` query parameter renders the "no link" state
\* and sends no outbound HTTP request at all, to any backend URL.
C1_NoTokenNoRequests ==
    (Loaded /\ token.kind = "absent") => (page.state = "NoLink" /\ page.sent = <<>>)

\* C2 (as stated): for every response whose status is not 200 the outcome is a
\* failure, and the message is the body's `error` field when the body is JSON
\* with that field, and exactly "Server error: <status code>" otherwise.
C2_ServerErrorMessage ==
    (GotResponse /\ answer.status # 200) =>
        /\ ~page.success
        /\ page.message =
             IF answer.body.json.t = "dict" /\ "error" \in DOMAIN answer.body.json.fields
             THEN answer.body.json.fields["error"]
             ELSE "Server error: " \o ToString(answer.status)

\* C2 (amended): for every response whose status is not 200 the outcome is a
\* failure; the message is the `error` field of a JSON object that has one,
\* "Failed to process approval" for a JSON object without one, and
\* "Server error: <status code> - <response text>" for a body that is not JSON.
C2_ErrorMessageAmended ==
    (GotResponse /\ answer.status # 200) =>
        /\ ~page.success
        /\ page.state = "Failure"
        /\ (answer.body.json.t = "dict" /\ "error" \in DOMAIN answer.body.json.fields)
             => page.message = answer.body.json.fields["error"]
        /\ (answer.body.json.t = "dict" /\ "error" \notin DOMAIN answer.body.json.fields)
             => page.message = "Failed to process approval"
        /\ answer.body.json.t = "invalid"
             => page.message = "Server error: " \o ToString(answer.status)
                               \o " - " \o answer.body.text

C2_Witness ==
    /\ GotResponse /\ answer.status = 403 /\ answer.body.json.t = "invalid"
    /\ page.state = "Failure"
    /\ page.message = "Server error: 403 - <html>Bad Gateway</html>"

\* C3: for every response with status 200, whatever its body, the outcome is a
\* success, and the message is the body's `message` field when present and
\* "Approval processed successfully" otherwise.
C3_Status200AlwaysSucceeds ==
    (GotResponse /\ answer.status = 200) =>
        /\ page.success
        /\ page.message =
             IF answer.body.json.t = "dict" /\ "message" \in DOMAIN answer.body.json.fields
             THEN answer.body.json.fields["message"]
             ELSE "Approval processed successfully"

C5_ExpiredIffPastExp ==
    (/\ Loaded
     /\ TokenDataTruthy(Decoded)
     /\ "exp" \in DOMAIN token.claims => token.claims["exp"].t = "int")
    => (page.state = "Expired"
        <=> /\ "exp" \in DOMAIN token.claims
            /\ token.claims["exp"].n # 0
            /\ token.claims["exp"].n < ranAt)

C7_FailuresClassified ==
    answer.exc \in Raised =>
        /\ page.state = "Failure"
        /\ ~page.success
        /\ IsConnectionError(answer.exc)
             => page.message = "Cannot connect to the backend server: " \o ExcStr(answer.exc)
        /\ IsTimeout(answer.exc)
             => page.message = "Request timed out. Please try again."
        /\ (~IsConnectionError(answer.exc) /\ ~IsTimeout(answer.exc))
             => page.message = "An error occurred: " \o ExcStr(answer.exc)

\* C8: no input is fatal: every run of main() completes without an uncaught
\* exception, in one of NoLink, Invalid, Expired, Valid, Success, Failure.
C8_NoInputIsFatal ==
    Loaded => page.state \in {"NoLink", "Invalid", "Expired", "Valid", "Success", "Failure"}

\* C9: every token that decodes (to an empty mapping too) and is not expired
\* reaches the Valid state with details and confirm button, and "Invalid
\* Token" is rendered only when decoding fails.
C9_DecodedUnexpiredIsValid ==
    Loaded =>
        /\ (Decoded.ok /\ page.state # "Expired")
             => (page.state \in {"Valid", "Success", "Failure"} /\ page.button)
        /\ page.state = "Invalid" => ~Decoded.ok

====
